---- MODULE Spec2Model ----
(***************************************************************************)
(* The incremental range-data synchronisation of                           *)
(* cafef_comprehensive_scraper.py (update_range_dataset), together with    *)
(* the object-store retention helpers of utils_r2.py and the publishers    *)
(* that call them.                                                         *)
(*                                                                         *)
(* A row is a record [ticker, date, val]; a data frame is a sequence of    *)
(* rows while it is being merged and a set of rows once it is written to   *)
(* a parquet file (a file is read back as the rows it holds).  Dates are   *)
(* day numbers 1..MaxDay; `now` is the current day.                        *)
(***************************************************************************)
EXTENDS Integers, Sequences, FiniteSets, TLC

VARIABLES
    now,                \* datetime.now(), as a day number
    src,                \* the rows the remote source currently serves
    local_mode,         \* the --local flag of the invocation
    batch_len,          \* the batch size of the invocation (batch_size, line 327)
    store,              \* master artifacts: key -> [rows, ok]; ok = FALSE is a truncated file
    chunks,             \* cafef_data/temp_chunks/<data_type>: file name -> [rows, ok]
    pc,                 \* position of update_range_dataset
    df_master,          \* rows of the master loaded by this run
    last_update_map,    \* ticker -> latest date in the loaded master
    latest_file_path,   \* key returned by find_latest_master_file, or NoFile
    tickers_to_process, \* tickers left after the resume filter
    batch_idx,          \* loop variable of the batch loop
    stamp,              \* int(time.time()) of this run, as used in its chunk names
    fetched,            \* history: tickers a fetch was issued for in this run
    ok_fetched,         \* history: tickers whose fetch succeeded in this run
    requests,           \* history: the params of the requests issued in this run
    submits,            \* history: the tickers submitted to the pool in this run, in the order of submission
    futures,            \* tickers of the batch in the pool whose result is not collected yet
    new_rows,           \* the rows collected from the workers of the batch
    tasks,              \* run(): for each data type, the position of its pipeline in the outer pool
    disk,               \* the local files of the staging areas: path |-> the data type that wrote it
    foreign,            \* history: <<pipeline, writer>> for every access of a pipeline to a file of another data type
    runner,             \* run(): "pool" inside the `with` block, then "returned" or "raised"
    got_rows,           \* history: some fetch of this run returned rows
    outcome,            \* history: how the publish step of this run ended
    fixes,              \* number of corrections the source has made to served rows
    faults,             \* number of failures and kills injected so far
    wm_prev,            \* history: watermark the previous run computed, for each ticker whose fetch succeeded in it
    covered,            \* history: tickers in the chunks written before the previous run was interrupted
    failed_prev         \* history: watermark the previous run computed, for each ticker whose fetch failed in it

vars == <<now, src, local_mode, batch_len, futures, new_rows, tasks, disk, foreign, runner, store, chunks, pc, df_master, last_update_map,
          latest_file_path, tickers_to_process, batch_idx, stamp, fetched,
          ok_fetched, requests, submits, got_rows, outcome, fixes, faults, wm_prev, covered,
          failed_prev>>

(***************************************************************************)
(* Bounds of the model.                                                    *)
(***************************************************************************)
MaxDay == 2
MaxFixes == 1
MaxFaults == 2

\* The entity catalog handed to update_range_dataset (sorted, unique).
TickerList == <<"AAA", "BBB">>
Tickers == {TickerList[i] : i \in 1..Len(TickerList)}

NoFile == [dir |-> <<>>, pre |-> "none", date |-> 0]

(***************************************************************************)
(* Configuration of the data type (CONFIG["proprietary"]).                 *)
(***************************************************************************)
r2_folder == <<"cafef_data", "proprietary_trading">>
file_prefix == "all_proprietary_trading"
start_date_default == 1
batch_size == 1
\* the widest batch of the batch-level specification
WideBatch == 2

(***************************************************************************)
(* Helpers.                                                                *)
(***************************************************************************)
Max(S) == CHOOSE x \in S : \A y \in S : y <= x

RECURSIVE SetToSeq(_)
SetToSeq(S) ==
    IF S = {} THEN <<>>
    ELSE LET x == CHOOSE y \in S : TRUE IN <<x>> \o SetToSeq(S \ {x})

SeqToSet(s) == {s[i] : i \in 1..Len(s)}

RECURSIVE Concat(_)
Concat(ss) == IF ss = <<>> THEN <<>> ELSE Head(ss) \o Concat(Tail(ss))

IsPrefix(p, s) == Len(p) <= Len(s) /\ SubSeq(s, 1, Len(p)) = p

\* list_r2_files(bucket, prefix) / os.listdir(folder): keys under a folder prefix
list_r2_files(st, prefix) == {k \in DOMAIN st : IsPrefix(prefix, k.dir)}

\* find_latest_master_file: the candidate with the greatest date in its name
find_latest_master_file(st, folder, prefix) ==
    LET candidates == {k \in list_r2_files(st, folder) : k.pre = prefix}
    IN IF candidates = {} THEN NoFile
       ELSE CHOOSE k \in candidates : \A c \in candidates : c.date <= k.date

\* The date of a served row is the text the source sends: a day number d parses
\* to day d, and -d stands for a text of day d that does not parse.  NaT is
\* what pd.to_datetime(..., errors='coerce') makes of such a text; it is below
\* every day, and max() passes over it.
NaT == 0

to_datetime(x) == IF x < 1 THEN NaT ELSE x

\* the day the source files a row under
DayOf(r) == IF r.date < 0 THEN 0 - r.date ELSE r.date

\* df.groupby("ticker")["date"].max().to_dict()
GroupMaxDate(rows) ==
    [t \in {r.ticker : r \in rows} |-> Max({r.date : r \in {q \in rows : q.ticker = t}})]

\* a faulty start date, the watermark itself: C15 does not hold of it
StartDate_at_watermark(t, map) == IF t \in DOMAIN map THEN map[t] ELSE start_date_default

\* process_ticker_range_data: the rows served for (start_date, EndDate = now)
StartDate(t, map) == IF t \in DOMAIN map THEN map[t] + 1 ELSE start_date_default

\* params of the request (PageIndex and PageSize are fixed)
Params(t, map) == [Symbol |-> t, StartDate |-> StartDate(t, map), EndDate |-> now]

\* a faulty worker, which answers a failed request with a row dated today:
\* C13 does not hold of it
process_ticker_range_data_stub(t, map, failed) ==
    IF failed THEN <<[ticker |-> t, date |-> now, val |-> "a"]>>
    ELSE SetToSeq({r \in src : r.ticker = t /\ StartDate(t, map) <= DayOf(r) /\ DayOf(r) <= now})

process_ticker_range_data(t, map, failed) ==
    IF failed THEN <<>>
    ELSE SetToSeq({r \in src : /\ r.ticker = Params(t, map).Symbol
                               /\ Params(t, map).StartDate <= DayOf(r)
                               /\ DayOf(r) <= Params(t, map).EndDate})

\* df.drop_duplicates(): whole-row comparison, first occurrence kept
RECURSIVE drop_duplicates(_)
drop_duplicates(s) ==
    IF s = <<>> THEN <<>>
    ELSE LET r == drop_duplicates(SubSeq(s, 1, Len(s) - 1))
             x == s[Len(s)]
         IN IF \E i \in 1..Len(r) : r[i] = x THEN r ELSE Append(r, x)

\* readable parquet files among the chunks, in directory-listing order
ReadableChunks(ch) == SetToSeq({n \in DOMAIN ch : ch[n].ok})

\* a faulty resume scan, which takes a readable chunk file for the checkpoint
\* of the whole list: C29 does not hold of it
ProcessedTickers_whole_list(ch) == IF \E n \in DOMAIN ch : ch[n].ok THEN Tickers ELSE {}

\* tickers present in the readable chunk files (resume scan)
ProcessedTickers(ch) == {r.ticker : r \in UNION {ch[n].rows : n \in {m \in DOMAIN ch : ch[m].ok}}}

\* a faulty resume filter, which takes any chunk on disk for a completed fetch
\* phase and leaves no ticker to process: C5 does not hold of it
FilterTickers_none_left(tl, processed) == IF processed = {} THEN tl ELSE <<>>

\* [t for t in tickers if t not in processed_tickers]
FilterTickers(tl, processed) == SelectSeq(tl, LAMBDA t : t \notin processed)

\* total_batches = (len(tickers_to_process) // batch_size) + 1
TotalBatches(tl) == (Len(tl) \div batch_len) + 1

\* a faulty slice, tickers_to_process[:end_idx]: C23 does not hold of it
BatchTickers_from_start(tl, idx) ==
    LET lo == idx * batch_len + 1
        hi == IF (idx + 1) * batch_len < Len(tl) THEN (idx + 1) * batch_len ELSE Len(tl)
    IN IF lo > Len(tl) THEN <<>> ELSE SubSeq(tl, 1, hi)

\* tickers_to_process[start_idx:end_idx]
BatchTickers(tl, idx) ==
    LET lo == idx * batch_len + 1
        hi == IF (idx + 1) * batch_len < Len(tl) THEN (idx + 1) * batch_len ELSE Len(tl)
    IN IF lo > Len(tl) THEN <<>> ELSE SubSeq(tl, lo, hi)

\* a faulty merge, which leaves the master out: C7 does not hold of it
MergeFrames_chunks_only(master, ch) ==
    drop_duplicates(Concat([i \in 1..Len(ReadableChunks(ch)) |->
                              SetToSeq(ch[ReadableChunks(ch)[i]].rows)]))

\* df_final of step 4/5: master rows first, then every readable chunk, deduplicated
MergeFrames(master, ch) ==
    LET frames == (IF master = {} THEN <<>> ELSE <<SetToSeq(master)>>)
                  \o [i \in 1..Len(ReadableChunks(ch)) |-> SetToSeq(ch[ReadableChunks(ch)[i]].rows)]
    IN drop_duplicates(Concat(frames))

\* a faulty naming, by the wall clock instead of the data: C6 does not hold of it
FileDate_now(df) == now

\* max_date of the merged frame; datetime.now() when it holds no valid date
FileDate(df) ==
    LET valid == {df[i].date : i \in 1..Len(df)} \ {NaT}
    IN IF valid = {} THEN now ELSE Max(valid)

NewKey(df) == [dir |-> r2_folder, pre |-> file_prefix, date |-> FileDate(df)]

Put(st, k, v) == [x \in DOMAIN st \cup {k} |-> IF x = k THEN v ELSE st[x]]
Remove(st, k) == [x \in DOMAIN st \ {k} |-> st[x]]

\* the rows the source adds for a day: one row for each ticker it lists
DayRows(new, d) == {[ticker |-> t, date |-> d, val |-> "a"] : t \in new}

\* a time later than the stamp in the name of every chunk file on disk
LaterStamp(ch) == 1 + Max({0} \cup {n[2] : n \in DOMAIN ch})

EmptyMap == [t \in {} |-> 0]
EmptyFiles == [k \in {} |-> [rows |-> {}, ok |-> TRUE]]

\* what is remembered of a run in which no fetch failed
NoFailure == [wm |-> EmptyMap, loaded |-> TRUE]

(***************************************************************************)
(* Initial state: an empty store and an empty chunk directory.             *)
(***************************************************************************)
\* day 1, nothing stored yet, no run in progress
\* the data types of the runner, in the order of their submission (line 487)
RangeTypes == {"proprietary", "insider", "order_stats"}

\* no file in the staging areas
NoFiles == [p \in {} |-> "none"]

\* run() has submitted the three pipelines to the outer pool (lines 484-490)
Submitted == [dt \in RangeTypes |-> [pc |-> "queued", exc |-> FALSE, batch |-> 0]]

RunnerStarts ==
    /\ tasks = Submitted
    /\ foreign = {}
    /\ runner = "pool"

\* no invocation of update_range_dataset has run
PipelineIdle ==
    /\ now = 1
    /\ store = EmptyFiles
    /\ chunks = EmptyFiles
    /\ pc = "idle"
    /\ df_master = {}
    /\ last_update_map = EmptyMap
    /\ latest_file_path = NoFile
    /\ tickers_to_process = <<>>
    /\ batch_idx = 0
    /\ stamp = 0
    /\ fetched = {}
    /\ ok_fetched = {}
    /\ requests = {}
    /\ submits = <<>>
    /\ futures = {}
    /\ new_rows = <<>>
    /\ got_rows = FALSE
    /\ outcome = "none"
    /\ wm_prev = EmptyMap
    /\ covered = {}
    /\ failed_prev = NoFailure

NothingYet ==
    /\ PipelineIdle
    /\ RunnerStarts
    /\ disk = NoFiles

\* the source serves one row of day 1 for each ticker it lists
Fresh ==
    /\ NothingYet
    /\ \E new \in SUBSET Tickers : src = DayRows(new, 1)

Init ==
    /\ Fresh
    /\ local_mode \in BOOLEAN
    /\ batch_len = batch_size
    /\ fixes = 0
    /\ faults = 0

RunLocals == <<df_master, last_update_map, latest_file_path, tickers_to_process, batch_idx, stamp>>
History == <<fetched, ok_fetched, requests, submits, got_rows, outcome>>
Env == <<now, src, fixes>>
Memo == <<wm_prev, covered, failed_prev>>
PoolState == <<futures, new_rows>>
Runner == <<tasks, disk, foreign, runner>>

\* the watermark of a ticker in a watermark map; 0 when the ticker has no entry
Watermark(map, t) == IF t \in DOMAIN map THEN map[t] ELSE 0

\* the run has loaded the master it found, if it found one (lines 278-296)
MasterLoaded == latest_file_path # NoFile => df_master # {}

\* n more failures or kills are injected
Fault(n) == faults + n <= MaxFaults /\ faults' = faults + n

ResetLocals ==
    /\ df_master' = {}
    /\ last_update_map' = EmptyMap
    /\ latest_file_path' = NoFile
    /\ tickers_to_process' = <<>>
    /\ batch_idx' = 0
    /\ stamp' = 0

\* the invocation is over: its locals and the history of the run are gone; what
\* is remembered of it is the watermark of the tickers it fetched and, when it
\* was interrupted, the tickers of the chunks it leaves or had written
EndRun(interrupted) ==
    /\ wm_prev' = [t \in ok_fetched |-> Watermark(last_update_map, t)]
    /\ covered' = IF interrupted THEN ProcessedTickers(chunks) ELSE {}
    /\ failed_prev' = IF fetched = ok_fetched THEN NoFailure
                      ELSE [wm |-> [t \in fetched \ ok_fetched |-> Watermark(last_update_map, t)],
                            loaded |-> MasterLoaded]
    /\ pc' = "idle"
    /\ ResetLocals
    /\ fetched' = {}
    /\ ok_fetched' = {}
    /\ requests' = {}
    /\ submits' = <<>>
    /\ futures' = {}
    /\ new_rows' = <<>>
    /\ got_rows' = FALSE
    /\ outcome' = "none"

(***************************************************************************)
(* The environment, between runs: each new day the source serves one row   *)
(* for every ticker it lists, and it may correct a row it served.          *)
(***************************************************************************)
NextDay(last) ==
    /\ pc = "idle"
    /\ now < last
    /\ now' = now + 1
    /\ src' = src \cup DayRows({r.ticker : r \in src}, now + 1)
    /\ UNCHANGED <<local_mode, batch_len, Runner, PoolState, store, chunks, pc, RunLocals, History, fixes, faults, Memo>>

Tick == NextDay(MaxDay)

SourceFix ==
    /\ pc = "idle"
    /\ fixes < MaxFixes
    /\ \E r \in src :
         /\ r.val = "a"
         /\ src' = (src \ {r}) \cup {[r EXCEPT !.val = "b"]}
    /\ fixes' = fixes + 1
    /\ UNCHANGED <<now, local_mode, batch_len, Runner, PoolState, store, chunks, pc, RunLocals, History, faults, Memo>>

\* a faulty resolver, which takes the watermarks of the master it found even
\* when the master could not be loaded: C16 does not hold of it
ResolveWatermarks_of_found(st, path, loaded) ==
    IF path # NoFile /\ st[path].ok THEN GroupMaxDate(st[path].rows) ELSE EmptyMap

\* last_update_map of step 1: the latest date of each ticker in the master that
\* was loaded; {} when none was found or the download or the read failed
ResolveWatermarks(st, path, loaded) ==
    IF loaded THEN GroupMaxDate(st[path].rows) ELSE EmptyMap

(***************************************************************************)
(* update_range_dataset, steps 1 and 2: load the master, scan the chunks.  *)
(* `loaded` is whether the download and read of the master succeeded: a    *)
(* truncated file is never read, and a download from R2 may fail.          *)
(***************************************************************************)
StartRun ==
    /\ pc = "idle"
    /\ stamp' = LaterStamp(chunks)
    /\ LET path == find_latest_master_file(store, r2_folder, file_prefix)
       IN /\ latest_file_path' = path
          /\ \E loaded \in BOOLEAN :
               /\ loaded => (path # NoFile /\ store[path].ok)
               /\ (local_mode /\ path # NoFile /\ store[path].ok) => loaded
               /\ Fault(IF ~ loaded /\ path # NoFile /\ store[path].ok THEN 1 ELSE 0)
               /\ df_master' = IF loaded THEN store[path].rows ELSE {}
               /\ last_update_map' = ResolveWatermarks(store, path, loaded)
    /\ tickers_to_process' = FilterTickers(TickerList, ProcessedTickers(chunks))
    /\ batch_idx' = 0
    /\ pc' = IF tickers_to_process' = <<>> THEN "merge" ELSE "batches"
    /\ UNCHANGED <<Env, local_mode, batch_len, Runner, PoolState, store, chunks, History, Memo>>

(***************************************************************************)
(* Step 3: one iteration of the batch loop.  Every ticker of the batch is  *)
(* submitted to the pool; `failed` are the tickers whose request fails     *)
(* (the worker returns []).  A batch with rows is written as one chunk     *)
(* file batch_<idx>_<time>.parquet.                                        *)
(***************************************************************************)
Batch == BatchTickers(tickers_to_process, batch_idx)

\* a faulty gathering, in which one failed fetch loses the rows of the whole
\* batch: C12 does not hold of it
NewRows_all_or_nothing(batch, failed) ==
    IF failed \cap SeqToSet(batch) # {} THEN <<>>
    ELSE Concat([i \in 1..Len(batch) |->
                   process_ticker_range_data(batch[i], last_update_map, FALSE)])

\* new_rows of one batch: the results of the workers, one after the other
NewRows(batch, failed) ==
    Concat([i \in 1..Len(batch) |->
              process_ticker_range_data(batch[i], last_update_map, batch[i] \in failed)])

\* df_batch: the new rows as a frame, its date column parsed (lines 353-365)
df_batch(rows) == {[r EXCEPT !.date = to_datetime(r.date)] : r \in SeqToSet(rows)}

\* tickers whose watermark is NaT: `last_date + timedelta(days=1)` is NaT and
\* its strftime raises, outside the try of the worker (lines 222-224)
NaTWatermarks(batch) ==
    {t \in SeqToSet(batch) : t \in DOMAIN last_update_map /\ last_update_map[t] = NaT}

\* a faulty naming, by the batch index alone: C21 does not hold of it
ChunkName_index_only == <<batch_idx, 0>>

\* batch_<batch_idx>_<int(time.time())>.parquet
ChunkName == <<batch_idx, stamp>>

AfterBatch ==
    /\ batch_idx' = batch_idx + 1
    /\ pc' = IF batch_idx + 1 = TotalBatches(tickers_to_process) THEN "merge" ELSE "batches"

\* `if not batch_tickers: continue`
SkipEmptyBatch ==
    /\ pc = "batches"
    /\ Batch = <<>>
    /\ AfterBatch
    /\ UNCHANGED <<Env, faults, local_mode, batch_len, Runner, PoolState, store, chunks, df_master, last_update_map,
                   latest_file_path, tickers_to_process, stamp, History, Memo>>

FetchBatch(failed) ==
    /\ fetched' = fetched \cup SeqToSet(Batch)
    /\ ok_fetched' = ok_fetched \cup (SeqToSet(Batch) \ failed)
    /\ requests' = requests \cup {Params(t, last_update_map) : t \in SeqToSet(Batch)}
    /\ submits' = submits \o Batch
    /\ got_rows' = (got_rows \/ NewRows(Batch, failed) # <<>>)

\* the batch completes: its chunk is written, or it had no rows
ProcessBatch ==
    /\ pc = "batches"
    /\ Batch # <<>>
    /\ NaTWatermarks(Batch) = {}
    /\ \E failed \in SUBSET SeqToSet(Batch) :
         /\ FetchBatch(failed)
         /\ Fault(IF failed = {} THEN 0 ELSE 1)
         /\ chunks' = IF NewRows(Batch, failed) # <<>>
                      THEN Put(chunks, ChunkName,
                               [rows |-> df_batch(NewRows(Batch, failed)), ok |-> TRUE])
                      ELSE chunks
    /\ AfterBatch
    /\ UNCHANGED <<Env, local_mode, batch_len, Runner, PoolState, store, df_master, last_update_map,
                   latest_file_path, tickers_to_process, stamp, outcome, Memo>>

(***************************************************************************)
(* Step 3 worker by worker: the batch is submitted to the pool, the        *)
(* results are collected in the order in which the workers complete        *)
(* (`for future in as_completed(futures)`), and the chunk is written when  *)
(* the pool has shut down.                                                 *)
(***************************************************************************)
\* futures = {executor.submit(process_ticker_range_data, t, ...) for t in batch_tickers}
SubmitBatch ==
    /\ pc = "batches"
    /\ Batch # <<>>
    /\ NaTWatermarks(Batch) = {}
    /\ futures' = SeqToSet(Batch)
    /\ new_rows' = <<>>
    /\ submits' = submits \o Batch
    /\ fetched' = fetched \cup SeqToSet(Batch)
    /\ requests' = requests \cup {Params(t, last_update_map) : t \in SeqToSet(Batch)}
    /\ pc' = "collect"
    /\ UNCHANGED <<Env, faults, local_mode, batch_len, Runner, store, chunks, RunLocals, ok_fetched,
                   got_rows, outcome, Memo>>

\* a faulty accumulator, new_rows = res: C25 does not hold of it
Extend_replace(acc, res) == IF res # <<>> THEN res ELSE acc

\* a faulty accumulator, which takes the first result with rows and no other:
\* C26 does not hold of it
Extend_first_only(acc, res) == IF acc = <<>> THEN res ELSE acc

\* `if res: new_rows.extend(res)`
Extend(acc, res) == IF res # <<>> THEN acc \o res ELSE acc

\* one turn of the as_completed loop: the worker of ticker t has completed
Collect(t) ==
    /\ pc = "collect"
    /\ t \in futures
    /\ \E failed \in BOOLEAN :
         /\ Fault(IF failed THEN 1 ELSE 0)
         /\ new_rows' = Extend(new_rows, process_ticker_range_data(t, last_update_map, failed))
         /\ ok_fetched' = IF failed THEN ok_fetched ELSE ok_fetched \cup {t}
         /\ got_rows' = (got_rows \/ process_ticker_range_data(t, last_update_map, failed) # <<>>)
    /\ futures' = futures \ {t}
    /\ UNCHANGED <<Env, local_mode, batch_len, Runner, store, chunks, pc, RunLocals, fetched, requests,
                   submits, outcome, Memo>>

CollectOne == \E t \in Tickers : Collect(t)

\* a faulty coordinator, which saves the batch whatever is still in the pool:
\* C22 does not hold of it
AllCollected_or_not == TRUE

\* the as_completed loop has ended and the `with` block has shut the pool down
AllCollected == futures = {}

\* `if new_rows:` the chunk of the batch is written; else the batch leaves no chunk
SaveBatch ==
    /\ pc = "collect"
    /\ AllCollected
    /\ chunks' = IF new_rows # <<>>
                 THEN Put(chunks, ChunkName, [rows |-> df_batch(new_rows), ok |-> TRUE])
                 ELSE chunks
    /\ AfterBatch
    /\ UNCHANGED <<Env, faults, local_mode, batch_len, Runner, PoolState, store, df_master, last_update_map,
                   latest_file_path, tickers_to_process, stamp, History, Memo>>

\* a worker raises before its request: future.result() (line 347) re-raises,
\* the rows of the batch are dropped and the exception leaves the loop; the
\* other workers of the batch have run
WorkerRaises ==
    /\ pc = "batches"
    /\ Batch # <<>>
    /\ NaTWatermarks(Batch) # {}
    /\ LET others == SeqToSet(Batch) \ NaTWatermarks(Batch)
       IN /\ fetched' = fetched \cup others
          /\ ok_fetched' = ok_fetched \cup others
          /\ requests' = requests \cup {Params(t, last_update_map) : t \in others}
          /\ submits' = submits \o Batch
          /\ got_rows' = (got_rows \/ \E t \in others :
                                        process_ticker_range_data(t, last_update_map, FALSE) # <<>>)
    /\ pc' = "finally"
    /\ outcome' = "fetch_raised"
    /\ UNCHANGED <<Env, faults, local_mode, batch_len, Runner, PoolState, store, chunks, RunLocals, Memo>>

\* df_batch.to_parquet raises (disk full, permission): the exception leaves the
\* loop; a partial file may be left behind
ChunkWriteFails ==
    /\ pc = "batches"
    /\ Batch # <<>>
    /\ NewRows(Batch, {}) # <<>>
    /\ FetchBatch({})
    /\ Fault(1)
    /\ \E partial \in BOOLEAN :
         chunks' = IF partial THEN Put(chunks, ChunkName, [rows |-> {}, ok |-> FALSE])
                   ELSE chunks
    /\ pc' = "finally"
    /\ outcome' = "chunk_write_failed"
    /\ UNCHANGED <<Env, local_mode, batch_len, Runner, PoolState, store, RunLocals, Memo>>

\* the process is killed while df_batch.to_parquet is writing the chunk file
KillDuringChunkWrite ==
    /\ pc = "batches"
    /\ Batch # <<>>
    /\ NewRows(Batch, {}) # <<>>
    /\ Fault(1)
    /\ chunks' = Put(chunks, ChunkName, [rows |-> {}, ok |-> FALSE])
    /\ EndRun(TRUE)
    /\ UNCHANGED <<Env, local_mode, batch_len, Runner, store>>

(***************************************************************************)
(* Steps 4 and 5: merge the master and all chunks, name and publish.       *)
(***************************************************************************)
NothingToSave ==
    \/ (DOMAIN chunks = {} /\ df_master = {})
    \/ (df_master = {} /\ ReadableChunks(chunks) = <<>>)

\* `return` before the publish: nothing to save
MergeNoData ==
    /\ pc = "merge"
    /\ NothingToSave
    /\ pc' = "finally"
    /\ outcome' = "no_data"
    /\ UNCHANGED <<Env, faults, local_mode, batch_len, Runner, PoolState, store, chunks, RunLocals, fetched,
                   ok_fetched, requests, submits, got_rows, Memo>>

df_final == MergeFrames(df_master, chunks)

Artifact(df) == [rows |-> SeqToSet(df), ok |-> TRUE]
Truncated == [rows |-> {}, ok |-> FALSE]

\* local mode: df_final.to_parquet(new_path) completes
PublishLocal ==
    /\ pc = "merge"
    /\ ~ NothingToSave
    /\ local_mode
    /\ store' = Put(store, NewKey(df_final), Artifact(df_final))
    /\ pc' = "remove_old"
    /\ outcome' = "published"
    /\ UNCHANGED <<Env, faults, local_mode, batch_len, Runner, PoolState, chunks, RunLocals, fetched, ok_fetched, requests, submits, got_rows, Memo>>

\* local mode: `os.remove(latest_file_path)` when it is not the new file
RemoveOld ==
    /\ pc = "remove_old"
    /\ store' = IF latest_file_path # NoFile /\ latest_file_path # NewKey(df_final)
                THEN Remove(store, latest_file_path)
                ELSE store
    /\ pc' = "finally"
    /\ UNCHANGED <<Env, faults, local_mode, batch_len, Runner, PoolState, chunks, RunLocals, History, Memo>>

\* R2 mode: the frame is written to a temporary file and upload_to_r2 succeeds
PublishR2 ==
    /\ pc = "merge"
    /\ ~ NothingToSave
    /\ ~ local_mode
    /\ store' = Put(store, NewKey(df_final), Artifact(df_final))
    /\ pc' = "finally"
    /\ outcome' = "published"
    /\ UNCHANGED <<Env, faults, local_mode, batch_len, Runner, PoolState, chunks, RunLocals, fetched, ok_fetched, requests, submits, got_rows, Memo>>

\* the write of the new master raises: upload_to_r2 fails and the store is
\* untouched, or the local write fails and may leave a partial file at new_path
PublishFails ==
    /\ pc = "merge"
    /\ ~ NothingToSave
    /\ Fault(1)
    /\ \E partial \in BOOLEAN :
         /\ partial => local_mode
         /\ store' = IF partial THEN Put(store, NewKey(df_final), Truncated) ELSE store
    /\ pc' = "finally"
    /\ outcome' = "upload_failed"
    /\ UNCHANGED <<Env, local_mode, batch_len, Runner, PoolState, chunks, RunLocals, fetched, ok_fetched, requests, submits, got_rows, Memo>>

\* local mode: the process is killed while to_parquet is writing new_path
KillDuringMasterWrite ==
    /\ pc = "merge"
    /\ ~ NothingToSave
    /\ local_mode
    /\ Fault(1)
    /\ store' = Put(store, NewKey(df_final), Truncated)
    /\ EndRun(TRUE)
    /\ UNCHANGED <<Env, local_mode, batch_len, Runner, chunks>>

(***************************************************************************)
(* Step 6, the `finally` block: shutil.rmtree(temp_chunk_dir).             *)
(***************************************************************************)
\* a faulty cleanup, which leaves the chunk directory as it is: C28 does not hold of it
CleanupChunks_none(ch) == ch

\* shutil.rmtree(temp_chunk_dir): nothing of the directory is left
CleanupChunks(ch) == EmptyFiles

Finally ==
    /\ pc = "finally"
    /\ chunks' = CleanupChunks(chunks)
    /\ EndRun(outcome \in {"chunk_write_failed", "fetch_raised"})
    /\ UNCHANGED <<Env, faults, local_mode, batch_len, Runner, store>>

\* the process is killed between two steps: no handler runs, files stay as they are
Kill ==
    /\ pc # "idle"
    /\ Fault(1)
    /\ EndRun(TRUE)
    /\ UNCHANGED <<Env, local_mode, batch_len, Runner, store, chunks>>

Next ==
    \/ Tick \/ SourceFix
    \/ StartRun
    \/ SkipEmptyBatch \/ ProcessBatch \/ ChunkWriteFails \/ KillDuringChunkWrite
    \/ MergeNoData \/ PublishLocal \/ RemoveOld \/ PublishR2 \/ PublishFails
    \/ KillDuringMasterWrite
    \/ Finally \/ Kill

Spec == Init /\ [][Next]_vars

(***************************************************************************)
(* The bucket is shared with the publishers of the other data types:       *)
(* run_cafef_downloader (cafef_data_downloader.py) and                     *)
(* update_vn_trading_data (cafef_data_stock_price_download.py).  Of the    *)
(* four entries of DATA_CONFIG two are modelled, stock_price, whose folder *)
(* is the root "cafef_data/", and vn_index, configured like the other two. *)
(* The rows of their files are not modelled.                               *)
(***************************************************************************)
keep == 2
max_days_back == 5
vn_max_days_back == 7
MaxStoreDay == 3
MaxDepth == 3

DataTypeList == <<"stock_price", "vn_index">>

DATA_CONFIG ==
    [stock_price |-> [file_pattern |-> "cafef_stock_price", r2_folder |-> <<"cafef_data">>],
     vn_index    |-> [file_pattern |-> "cafef_vnindex_data",
                      r2_folder |-> <<"cafef_data", "vn_index">>]]

prefix_main == <<"cafef_data">>
prefix_backup == <<"cafef_data", "cafef_data_backup">>

Parquet == [rows |-> {}, ok |-> TRUE]

\* list_objects_v2 returns the keys in the order of their strings; no name below
\* is a prefix of another at the same place of a key, so the keys compare as
\* their sequences of names do
NameRank ==
    [all_proprietary_trading |-> 1, cafef_data |-> 2, cafef_data_backup |-> 3,
     cafef_stock_price |-> 4, cafef_vnindex_data |-> 5, proprietary_trading |-> 6,
     vn_index |-> 7]

RECURSIVE LexLess(_, _)
LexLess(p, q) ==
    IF p = <<>> THEN q # <<>>
    ELSE IF q = <<>> THEN FALSE
    ELSE IF Head(p) = Head(q) THEN LexLess(Tail(p), Tail(q))
    ELSE NameRank[Head(p)] < NameRank[Head(q)]

ListedBefore(j, k) == LexLess(j.dir \o <<j.pre>>, k.dir \o <<k.pre>>)

\* sorted(files, key=extract_date_from_name, reverse=True): latest date first,
\* files of one date in the order of the listing (the sort is stable)
SortedBefore(j, k) == j.date > k.date \/ (j.date = k.date /\ ListedBefore(j, k))

RECURSIVE SortedByDate(_)
SortedByDate(S) ==
    IF S = {} THEN <<>>
    ELSE LET f == CHOOSE k \in S : \A j \in S \ {k} : SortedBefore(k, j)
         IN <<f>> \o SortedByDate(S \ {f})

\* seq[n:]
Drop(seq, n) == SubSeq(seq, n + 1, Len(seq))

RECURSIVE DeleteAll(_, _)
DeleteAll(st, seq) == IF seq = <<>> THEN st ELSE DeleteAll(Remove(st, Head(seq)), Tail(seq))

\* clean_old_backups_r2(bucket, prefix, keep)
clean_old_backups_r2(st, prefix, n) ==
    DeleteAll(st, Drop(SortedByDate(list_r2_files(st, prefix)), n))

\* old_file.replace(prefix_main, prefix_backup)
BackupKey(k, main, backup) ==
    [k EXCEPT !.dir = backup \o SubSeq(k.dir, Len(main) + 1, Len(k.dir))]

\* copy_object to the backup key, then delete_object, one file after the other
RECURSIVE MoveAll(_, _, _, _)
MoveAll(st, seq, main, backup) ==
    IF seq = <<>> THEN st
    ELSE LET k == Head(seq)
         IN MoveAll(Remove(Put(st, BackupKey(k, main, backup), st[k]), k),
                    Tail(seq), main, backup)

\* move_to_backup_r2(bucket, prefix_main, prefix_backup, keep)
move_to_backup_r2(st, main, backup, n) ==
    LET parquet_files == SortedByDate(list_r2_files(st, main))
    IN IF parquet_files = <<>> THEN st
       ELSE LET moved == MoveAll(st, Drop(parquet_files, 1), main, backup)
            IN DeleteAll(moved, Drop(SortedByDate(list_r2_files(moved, backup)), n))

\* the days `for i in range(n): date_obj = now - i` visits
RecentDays(n) == {d \in 1..now : d > now - n}

TypeKey(dt, d) ==
    [dir |-> DATA_CONFIG[dt].r2_folder, pre |-> DATA_CONFIG[dt].file_pattern, date |-> d]

\* one iteration of `for data_type, config in DATA_CONFIG.items()`: the latest
\* day whose file exists or whose download succeeds; upload if new; then prune
DownloadType(st, dt, avail) ==
    LET hits == {d \in RecentDays(max_days_back) : TypeKey(dt, d) \in DOMAIN st \/ d \in avail}
    IN IF hits = {} THEN st
       ELSE clean_old_backups_r2(
                IF TypeKey(dt, Max(hits)) \in DOMAIN st THEN st
                ELSE Put(st, TypeKey(dt, Max(hits)), Parquet),
                DATA_CONFIG[dt].r2_folder, keep)

RECURSIVE DownloadAll(_, _, _)
DownloadAll(st, i, avail) ==
    IF i > Len(DataTypeList) THEN st
    ELSE DownloadAll(DownloadType(st, DataTypeList[i], avail[i]), i + 1, avail)

\* run_cafef_downloader(max_days_back=5, local_mode=False); avail[i] are the days
\* for which the source serves a valid archive of the i-th data type
run_cafef_downloader ==
    /\ pc = "idle"
    /\ \E avail \in [1..Len(DataTypeList) -> SUBSET RecentDays(max_days_back)] :
         store' = DownloadAll(store, 1, avail)
    /\ UNCHANGED <<Env, faults, local_mode, batch_len, Runner, PoolState, chunks, pc, RunLocals, History, Memo>>

\* update_vn_trading_data(max_days_back=7): skipped when a file under the root
\* is dated today; else the latest served day is saved, the old files are
\* moved to the backup folder and the new file is uploaded
update_vn_trading_data ==
    /\ pc = "idle"
    /\ \A k \in DOMAIN store : Len(k.dir) < MaxDepth
    /\ \A k \in list_r2_files(store, prefix_main) : k.date < now
    /\ \E avail \in SUBSET RecentDays(vn_max_days_back) :
         /\ avail # {}
         /\ store' = Put(move_to_backup_r2(store, prefix_main, prefix_backup, keep),
                         TypeKey("stock_price", Max(avail)), Parquet)
    /\ UNCHANGED <<Env, faults, local_mode, batch_len, Runner, PoolState, chunks, pc, RunLocals, History, Memo>>

\* update_vn_trading_data: upload_to_r2 (line 203) raises, after
\* move_to_backup_r2 (line 202) has run
update_vn_trading_data_upload_fails ==
    /\ pc = "idle"
    /\ \A k \in DOMAIN store : Len(k.dir) < MaxDepth
    /\ \A k \in list_r2_files(store, prefix_main) : k.date < now
    /\ RecentDays(vn_max_days_back) # {}
    /\ store' = move_to_backup_r2(store, prefix_main, prefix_backup, keep)
    /\ UNCHANGED <<Env, faults, local_mode, batch_len, Runner, PoolState, chunks, pc, RunLocals, History, Memo>>

(***************************************************************************)
(* The bucket over several days: the scraper runs in R2 mode without       *)
(* failures, next to the two other publishers.                             *)
(***************************************************************************)
StoreInit ==
    /\ Fresh
    /\ local_mode = FALSE
    /\ batch_len = batch_size
    /\ fixes = MaxFixes
    /\ faults = MaxFaults

StoreTick == NextDay(MaxStoreDay)

StoreNext ==
    \/ StoreTick
    \/ StartRun
    \/ SkipEmptyBatch \/ ProcessBatch
    \/ MergeNoData \/ PublishR2
    \/ Finally
    \/ run_cafef_downloader \/ update_vn_trading_data
    \/ update_vn_trading_data_upload_fails

StoreSpec == StoreInit /\ [][StoreNext]_vars

(***************************************************************************)
(* The batch loop with batches of one ticker and of several tickers: the   *)
(* scraper in R2 mode, the source serving the same row on every request.   *)
(***************************************************************************)
BatchInit ==
    /\ Fresh
    /\ local_mode = FALSE
    /\ batch_len \in batch_size..WideBatch
    /\ fixes = MaxFixes
    /\ faults = 0

BatchNext ==
    \/ Tick
    \/ StartRun
    \/ SkipEmptyBatch \/ ProcessBatch \/ ChunkWriteFails \/ KillDuringChunkWrite
    \/ MergeNoData \/ PublishR2 \/ PublishFails
    \/ Finally \/ Kill

BatchSpec == BatchInit /\ [][BatchNext]_vars

(***************************************************************************)
(* The scraper against a source that serves some rows with a date text     *)
(* that does not parse: R2 mode, no failure injected.                      *)
(***************************************************************************)
\* the rows a source may serve for a day: for each ticker, a row whose date
\* parses or one whose date does not
RawRows(d) == {[ticker |-> t, date |-> x, val |-> "a"] : t \in Tickers, x \in {d, 0 - d}}

DateInit ==
    /\ NothingYet
    /\ src \in SUBSET RawRows(1)
    /\ \A r1, r2 \in src : r1.ticker = r2.ticker => r1 = r2
    /\ local_mode = FALSE
    /\ batch_len = batch_size
    /\ fixes = MaxFixes
    /\ faults = MaxFaults

DateNext ==
    \/ Tick
    \/ StartRun
    \/ SkipEmptyBatch \/ ProcessBatch \/ WorkerRaises
    \/ MergeNoData \/ PublishR2
    \/ Finally

DateSpec == DateInit /\ [][DateNext]_vars

(***************************************************************************)
(* The batch loop worker by worker: R2 mode, fetches may fail, batches of  *)
(* one ticker and of several tickers.                                      *)
(***************************************************************************)
WorkerInit ==
    /\ Fresh
    /\ local_mode = FALSE
    /\ batch_len \in batch_size..WideBatch
    /\ fixes = MaxFixes
    /\ faults = 0

WorkerNext ==
    \/ Tick
    \/ StartRun
    \/ SkipEmptyBatch \/ SubmitBatch \/ CollectOne \/ SaveBatch
    \/ MergeNoData \/ PublishR2
    \/ Finally

WorkerSpec == WorkerInit /\ [][WorkerNext]_vars

(***************************************************************************)
(* run(): the pipelines of the three data types in the outer pool          *)
(* (ThreadPoolExecutor(max_workers=3)), step by step over the local files  *)
(* of their staging areas: the chunk directory, the temporary copy of the  *)
(* master and the temporary file of the upload.  A file is its path; the   *)
(* disk records for each file the data type whose pipeline wrote it.       *)
(***************************************************************************)
CONFIG ==
    [proprietary |-> [r2_folder |-> <<"cafef_data", "proprietary_trading">>,
                      file_prefix |-> "all_proprietary_trading"],
     insider     |-> [r2_folder |-> <<"cafef_data", "insider_trading">>,
                      file_prefix |-> "all_insider_trading"],
     order_stats |-> [r2_folder |-> <<"cafef_data", "order_statistics">>,
                      file_prefix |-> "all_order_statistics"]]

\* batches of a pipeline in the pool
PoolBatches == 1

\* a faulty layout, with one chunk directory for all data types: C24 does not
\* hold of it
temp_chunk_dir_shared(dt) == <<"cafef_data", "temp_chunks">>

\* temp_chunk_dir = f"cafef_data/temp_chunks/{data_type}"
temp_chunk_dir(dt) == <<"cafef_data", "temp_chunks", dt>>

\* os.listdir(temp_chunk_dir): the files of the directory
ListDir(d) == {p \in DOMAIN disk : p.dir = d}

\* the files that shutil.rmtree(d) removes
Tree(d) == {p \in DOMAIN disk : IsPrefix(d, p.dir)}

\* int(time.time()) at the write of a chunk: later than the names in the directory
ChunkTime(dt) == 1 + Max({0} \cup {p.time : p \in ListDir(temp_chunk_dir(dt))})

\* os.path.join(temp_chunk_dir, f"batch_{batch_idx}_{int(time.time())}.parquet")
batch_file(dt) ==
    [dir |-> temp_chunk_dir(dt), stem |-> <<"batch">>, idx |-> tasks[dt].batch,
     time |-> ChunkTime(dt)]

\* local_load_path = f"temp_master_{data_type}.parquet"
local_load_path(dt) == [dir |-> <<>>, stem |-> <<"temp_master", dt>>, idx |-> 0, time |-> 0]

\* temp_path = f"temp_{new_filename}", new_filename = f"{prefix}_{max_date}.parquet"
temp_path(dt) == [dir |-> <<>>, stem |-> <<"temp", CONFIG[dt].file_prefix>>, idx |-> 0, time |-> now]

\* the pipeline of dt reads, writes or removes the files `paths`
Touch(dt, paths) ==
    foreign' = foreign \cup {<<dt, disk[p]>> : p \in {q \in paths \cap DOMAIN disk : disk[q] # dt}}

Moves(dt, to) == tasks' = [tasks EXCEPT ![dt].pc = to]
Raises(dt) == tasks' = [tasks EXCEPT ![dt].pc = "finally", ![dt].exc = TRUE]

\* the single-pipeline state, which the runner-level steps leave alone
Pipeline == <<now, src, local_mode, batch_len, PoolState, store, chunks, pc, RunLocals, History,
              fixes, Memo>>

\* step 1: find the master; download it to the temporary copy (a failed
\* download returns False and writes nothing); the search may raise
TaskFindMaster(dt) ==
    /\ runner = "pool"
    /\ tasks[dt].pc = "queued"
    /\ \/ /\ Moves(dt, "scan")
          /\ foreign' = foreign
          /\ disk' = disk
       \/ /\ Moves(dt, "loaded")
          /\ Touch(dt, {local_load_path(dt)})
          /\ \E ok \in BOOLEAN :
               disk' = IF ok THEN Put(disk, local_load_path(dt), dt) ELSE disk
       \/ /\ Raises(dt)
          /\ foreign' = foreign
          /\ disk' = disk
    /\ UNCHANGED <<Pipeline, faults, runner>>

\* pd.read_parquet(local_load_path), then os.remove(local_load_path) if it exists
TaskReadMaster(dt) ==
    /\ runner = "pool"
    /\ tasks[dt].pc = "loaded"
    /\ Touch(dt, {local_load_path(dt)})
    /\ disk' = IF local_load_path(dt) \in DOMAIN disk THEN Remove(disk, local_load_path(dt)) ELSE disk
    /\ Moves(dt, "scan")
    /\ UNCHANGED <<Pipeline, faults, runner>>

\* step 2: the resume scan reads every file of the chunk directory
TaskScan(dt) ==
    /\ runner = "pool"
    /\ tasks[dt].pc = "scan"
    /\ Touch(dt, ListDir(temp_chunk_dir(dt)))
    /\ tasks' = [tasks EXCEPT ![dt].pc = "fetch", ![dt].batch = 0]
    /\ UNCHANGED <<Pipeline, faults, disk, runner>>

\* step 3: a batch writes its chunk, or has no rows, or raises
TaskBatch(dt) ==
    /\ runner = "pool"
    /\ tasks[dt].pc = "fetch"
    /\ tasks[dt].batch < PoolBatches
    /\ \/ /\ Touch(dt, {batch_file(dt)})
          /\ disk' = Put(disk, batch_file(dt), dt)
          /\ tasks' = [tasks EXCEPT ![dt].batch = @ + 1]
       \/ /\ foreign' = foreign
          /\ disk' = disk
          /\ tasks' = [tasks EXCEPT ![dt].batch = @ + 1]
       \/ /\ foreign' = foreign
          /\ disk' = disk
          /\ Raises(dt)
    /\ UNCHANGED <<Pipeline, faults, runner>>

\* step 4: the merge reads every file of the chunk directory; with nothing to
\* save it returns, else df_final.to_parquet(temp_path)
TaskMerge(dt) ==
    /\ runner = "pool"
    /\ tasks[dt].pc = "fetch"
    /\ tasks[dt].batch = PoolBatches
    /\ \/ /\ Touch(dt, ListDir(temp_chunk_dir(dt)))
          /\ disk' = disk
          /\ Moves(dt, "finally")
       \/ /\ Touch(dt, ListDir(temp_chunk_dir(dt)) \cup {temp_path(dt)})
          /\ disk' = Put(disk, temp_path(dt), dt)
          /\ Moves(dt, "upload")
    /\ UNCHANGED <<Pipeline, faults, runner>>

\* upload_to_r2(temp_path, ...) then os.remove(temp_path); when the upload
\* raises the temporary file stays
TaskUpload(dt) ==
    /\ runner = "pool"
    /\ tasks[dt].pc = "upload"
    /\ Touch(dt, {temp_path(dt)})
    /\ \/ /\ disk' = IF temp_path(dt) \in DOMAIN disk THEN Remove(disk, temp_path(dt)) ELSE disk
          /\ Moves(dt, "finally")
       \/ /\ disk' = disk
          /\ Raises(dt)
    /\ UNCHANGED <<Pipeline, faults, runner>>

\* the `finally` block: shutil.rmtree(temp_chunk_dir); the future of the
\* pipeline then holds its result or its exception
TaskFinally(dt) ==
    /\ runner = "pool"
    /\ tasks[dt].pc = "finally"
    /\ Touch(dt, Tree(temp_chunk_dir(dt)))
    /\ disk' = [p \in DOMAIN disk \ Tree(temp_chunk_dir(dt)) |-> disk[p]]
    /\ Moves(dt, IF tasks[dt].exc THEN "raised" ELSE "done")
    /\ UNCHANGED <<Pipeline, faults, runner>>

\* a faulty collection, `future.result()`, which raises the exception of the
\* pipeline in the runner: C30 does not hold of it
Collected_result(task) == IF task.pc = "raised" THEN "raised" ELSE "returned"

\* `for future in as_completed(futures): pass`: the result of a future is never asked for
Collected(task) == "returned"

\* the `with` block ends when every pipeline has ended; run() prints and returns
RunnerReturns ==
    /\ runner = "pool"
    /\ \A dt \in RangeTypes : tasks[dt].pc \in {"done", "raised"}
    /\ runner' = IF \E dt \in RangeTypes : Collected(tasks[dt]) = "raised" THEN "raised" ELSE "returned"
    /\ UNCHANGED <<Pipeline, faults, tasks, disk, foreign>>

\* a chunk file that a killed process left in the chunk directory of dt
LeftChunk(dt) == [dir |-> temp_chunk_dir(dt), stem |-> <<"batch">>, idx |-> 0, time |-> 0]

\* the chunk directories when run() starts: empty, or with a chunk left by a
\* process that was killed
LeftChunks(types) ==
    [p \in {LeftChunk(dt) : dt \in types} |-> CHOOSE dt \in types : LeftChunk(dt) = p]

PoolInit ==
    /\ PipelineIdle
    /\ RunnerStarts
    /\ \E types \in SUBSET RangeTypes : disk = LeftChunks(types)
    /\ src = {}
    /\ local_mode = FALSE
    /\ batch_len = batch_size
    /\ fixes = MaxFixes
    /\ faults = 0

PoolStep(dt) ==
    \/ TaskFindMaster(dt) \/ TaskReadMaster(dt) \/ TaskScan(dt) \/ TaskBatch(dt)
    \/ TaskMerge(dt) \/ TaskUpload(dt) \/ TaskFinally(dt)

PoolNext ==
    \/ \E dt \in RangeTypes : PoolStep(dt)
    \/ RunnerReturns

PoolSpec == PoolInit /\ [][PoolNext]_vars

(***************************************************************************)
(* Vocabulary of the properties.                                           *)
(***************************************************************************)
\* the run has written its new master and has not ended yet
JustPublished == pc \in {"remove_old", "finally"} /\ outcome = "published"

\* readable chunk files that were on disk when this run started
OldChunks == {n \in DOMAIN chunks : n[2] < stamp /\ chunks[n].ok}

\* the rows of the readable chunk files
ChunkRows == UNION {chunks[n].rows : n \in {m \in DOMAIN chunks : chunks[m].ok}}

SamePair(r1, r2) == r1.ticker = r2.ticker /\ r1.date = r2.date

\* complete (readable) master artifacts of the data type
CompleteMasters(st) ==
    {k \in list_r2_files(st, r2_folder) : k.pre = file_prefix /\ st[k].ok}

(***************************************************************************)
(* C1: when the upload step fails, every chunk file that existed before    *)
(* the upload attempt still exists when the run ends.                      *)
(***************************************************************************)
C1_ChunksKeptWhenUploadFails ==
    [][(pc = "finally" /\ outcome = "upload_failed" /\ pc' = "idle")
         => \A n \in DOMAIN chunks : n \in DOMAIN chunks' /\ chunks'[n] = chunks[n]]_vars

(***************************************************************************)
(* C2: in every published dataset each (ticker, date) pair occurs in at    *)
(* most one row.                                                           *)
(***************************************************************************)
C2_PairUniqueInDataset ==
    \A k \in DOMAIN store : \A r1, r2 \in store[k].rows : SamePair(r1, r2) => r1 = r2

(***************************************************************************)
(* C3: when a pair is both in the master and in a chunk, the merge keeps   *)
(* the chunk's row and not the master's, whatever the rows' values.        *)
(***************************************************************************)
C3_ChunkRowSupersedesMasterRow ==
    JustPublished =>
        \A m \in df_master : \A c \in ChunkRows :
            (SamePair(m, c) /\ m # c) =>
                (c \in store[NewKey(df_final)].rows /\ m \notin store[NewKey(df_final)].rows)

(***************************************************************************)
(* C4: the run that follows an interrupted run issues no fetch for a       *)
(* ticker present in a chunk the interrupted run had written.              *)
(***************************************************************************)
C4_NoFetchOfChunkedTicker == fetched \cap covered = {}

(***************************************************************************)
(* C5: a run that resumes from the chunks of an interrupted run, against   *)
(* the same source data, publishes the rows and the version name that a    *)
(* run never interrupted publishes.                                        *)
(***************************************************************************)
\* the chunk files a run writes when it starts with an empty chunk directory
\* and every fetch succeeds
UninterruptedChunks ==
    LET idx == {i \in 0..(TotalBatches(TickerList) - 1) :
                  NewRows(BatchTickers(TickerList, i), {}) # <<>>}
    IN [n \in {<<i, stamp>> : i \in idx} |->
          [rows |-> df_batch(NewRows(BatchTickers(TickerList, n[1]), {})), ok |-> TRUE]]

UninterruptedFinal == MergeFrames(df_master, UninterruptedChunks)

\* the old chunks hold what the source serves now for their tickers
SameSourceData ==
    \A n \in OldChunks :
        chunks[n].rows =
            UNION {SeqToSet(process_ticker_range_data(t, last_update_map, FALSE)) :
                     t \in {r.ticker : r \in chunks[n].rows}}

Resumed == OldChunks # {} /\ SameSourceData /\ fetched = ok_fetched

C5_ResumedRunPublishesSame ==
    (JustPublished /\ Resumed) =>
        /\ NewKey(df_final) = NewKey(UninterruptedFinal)
        /\ store[NewKey(df_final)] = Artifact(UninterruptedFinal)

C5_Witness ==
    /\ pc = "finally" /\ outcome = "published" /\ Resumed
    /\ df_master # {}
    /\ fetched # {}
    /\ got_rows

(***************************************************************************)
(* C6: a run in which the source returns no new row creates no artifact    *)
(* key and leaves the chunk directory empty when it ends; so do two such   *)
(* runs in succession.                                                     *)
(***************************************************************************)
\* a step of the merge, publish or cleanup of a run that got no row, no failure injected
QuietStep == pc \in {"merge", "remove_old", "finally"} /\ ~ got_rows /\ faults' = faults

NoNewKeyNoChunk == DOMAIN store' \subseteq DOMAIN store /\ (pc' = "idle" => DOMAIN chunks' = {})

WatermarkNotLower == \A t \in DOMAIN wm_prev : Watermark(last_update_map, t) >= wm_prev[t]

C7_WatermarkMonotone == pc # "idle" => WatermarkNotLower

\* amended: provided the next run loads the master it finds
C7_WatermarkMonotoneWhenLoaded ==
    (pc # "idle" /\ (latest_file_path # NoFile => df_master # {})) => WatermarkNotLower

C7_Witness ==
    /\ pc # "idle"
    /\ df_master # {}
    /\ \E t \in DOMAIN wm_prev : wm_prev[t] > 0 /\ Watermark(last_update_map, t) > wm_prev[t]

(***************************************************************************)
(* C8: after every successful publish the store holds at most `keep`       *)
(* master versions of the data type.                                       *)
(***************************************************************************)
MasterVersions(st) == {k \in list_r2_files(st, r2_folder) : k.pre = file_prefix}

C8_RetentionBound == JustPublished => Cardinality(MasterVersions(store)) <= keep

(***************************************************************************)
(* C9: the pruning that follows a publish of a data type deletes or moves  *)
(* artifacts of that data type only.                                       *)
(***************************************************************************)
\* the artifacts that a step deletes or moves away
Gone == DOMAIN store \ DOMAIN store'

PatternsOf(types) == {DATA_CONFIG[dt].file_pattern : dt \in types}

C9_PruningStaysInType ==
    [][/\ run_cafef_downloader => \A k \in Gone : k.pre \in PatternsOf({"stock_price", "vn_index"})
       /\ update_vn_trading_data => \A k \in Gone : k.pre \in PatternsOf({"stock_price"})]_vars

(***************************************************************************)
(* C10: once the store holds a complete master of the data type, it holds  *)
(* one after every step.                                                   *)
(***************************************************************************)
C10_CompleteMasterKept ==
    [][CompleteMasters(store) # {} => CompleteMasters(store') # {}]_vars

(***************************************************************************)
(* C11: every run ends with its new version published, or with nothing to  *)
(* persist (no row in a chunk), or with the chunks it holds left in the    *)
(* chunk directory for the next invocation; a run that fetched rows and    *)
(* did not publish them ends with those rows still in chunks.              *)
(***************************************************************************)
\* the step that ends the invocation
RunEnds == pc # "idle" /\ pc' = "idle"

\* every readable chunk file is still there, unchanged, after the step
ChunksPersist ==
    \A n \in DOMAIN chunks : chunks[n].ok => (n \in DOMAIN chunks' /\ chunks'[n] = chunks[n])

C11_RunEndsPublishedNoopOrChunked ==
    [][RunEnds => (outcome = "published" \/ ChunkRows = {} \/ ChunksPersist)]_vars

(***************************************************************************)
(* C12: a batch in which the fetch of a ticker fails is not aborted and    *)
(* does not abort the run: the rows served for every other ticker of the   *)
(* batch are in the chunk the batch writes, and the loop goes on to the    *)
(* next batch.                                                             *)
(***************************************************************************)
\* the tickers this step issues a fetch for, and those among them whose fetch fails
FetchedNow == fetched' \ fetched
FailedNow == FetchedNow \ ok_fetched'

\* what the source serves for a ticker under the watermarks of this run
Served(t) == SeqToSet(process_ticker_range_data(t, last_update_map, FALSE))

C12_FailedFetchKeepsBatchAndRun ==
    [][(pc = "batches" /\ FailedNow # {}) =>
          /\ batch_idx' = batch_idx + 1
          /\ pc' \in {"batches", "merge"}
          /\ \A t \in FetchedNow \ FailedNow :
                Served(t) # {} =>
                    (ChunkName \in DOMAIN chunks' /\ chunks'[ChunkName].ok
                     /\ Served(t) \subseteq chunks'[ChunkName].rows)]_vars

\* a batch of two tickers has completed: one fetch failed, the rows of the
\* other ticker are in the chunk of the batch
C12_Witness ==
    /\ pc = "batches" /\ batch_idx = 1 /\ batch_len > 1
    /\ fetched = Tickers
    /\ \E t \in fetched : ok_fetched = fetched \ {t}
    /\ <<0, stamp>> \in DOMAIN chunks
    /\ chunks[<<0, stamp>>].rows # {}

(***************************************************************************)
(* C13: for every ticker whose fetch failed in a run, the watermark the    *)
(* next run computes is the watermark that run computed, and the next run  *)
(* fetches the ticker from the same start date.                            *)
(***************************************************************************)
\* the start date of the request of a ticker whose watermark is w (0: none)
StartAfter(w) == IF w = 0 THEN start_date_default ELSE w + 1

FailedFetchRetried ==
    \A t \in DOMAIN failed_prev.wm :
        /\ Watermark(last_update_map, t) = failed_prev.wm[t]
        /\ StartDate(t, last_update_map) = StartAfter(failed_prev.wm[t])
        /\ pc = "merge" => t \in fetched

C13_FailedFetchSameWatermark == pc # "idle" => FailedFetchRetried

\* amended: provided both runs load the master they find
C13_FailedFetchSameWatermarkWhenLoaded ==
    (pc # "idle" /\ failed_prev.loaded /\ MasterLoaded) => FailedFetchRetried

\* the fetch failed in a run that published the rows of the other ticker, and
\* the next run has fetched the ticker again, above the same watermark
C13_Witness ==
    /\ pc = "merge" /\ df_master # {} /\ failed_prev.loaded
    /\ \E t \in DOMAIN failed_prev.wm :
         /\ failed_prev.wm[t] > 0
         /\ t \in fetched
         /\ \E r \in df_master : r.ticker # t /\ r.date > failed_prev.wm[t]

(***************************************************************************)
(* C14: no fetch is issued in a run for a ticker whose watermark is the    *)
(* current day or later.                                                   *)
(***************************************************************************)
C14_NoFetchWhenWatermarkCurrent ==
    \A t \in fetched : Watermark(last_update_map, t) < now

(***************************************************************************)
(* C15: the request issued for a ticker with watermark w asks for the days *)
(* from the day after w to the current day inclusive; the request for a    *)
(* ticker without a watermark asks for the days from the configured        *)
(* default start date to the current day; the rows a successful fetch      *)
(* contributes to the chunks are the served rows of these days.            *)
(***************************************************************************)
\* the rows of a ticker in the chunk files this run has written
WrittenRows(t) ==
    {r \in UNION {chunks[n].rows : n \in {m \in DOMAIN chunks : m[2] = stamp /\ chunks[m].ok}} :
        r.ticker = t}

C15_RequestRangeFromWatermark ==
    \A q \in requests :
        /\ q.EndDate = now
        /\ q.Symbol \in DOMAIN last_update_map =>
              (q.StartDate > last_update_map[q.Symbol]
               /\ q.StartDate = last_update_map[q.Symbol] + 1)
        /\ q.Symbol \notin DOMAIN last_update_map => q.StartDate = start_date_default
        /\ (q.Symbol \in ok_fetched /\ outcome # "chunk_write_failed") =>
              WrittenRows(q.Symbol) =
                  {r \in src : r.ticker = q.Symbol /\ q.StartDate <= r.date /\ r.date <= q.EndDate}

\* one request above a watermark, which brought the row of the current day,
\* and one from the default start date
C15_Witness ==
    /\ pc = "merge"
    /\ \E q \in requests :
         /\ q.Symbol \in DOMAIN last_update_map
         /\ q.StartDate = now
         /\ WrittenRows(q.Symbol) # {}
    /\ \E q \in requests : q.Symbol \notin DOMAIN last_update_map /\ q.StartDate = start_date_default

C17_EarlierChunksKeptWhenWriteFails ==
    [][(outcome = "chunk_write_failed" /\ RunEnds) =>
          \A n \in DOMAIN chunks :
              (n[2] = stamp /\ n[1] < batch_idx /\ chunks[n].ok) =>
                  (n \in DOMAIN chunks' /\ chunks'[n] = chunks[n])]_vars

(***************************************************************************)
(* C18: a run whose upload of the new artifact fails deletes no artifact   *)
(* and moves none away: artifacts are deleted and pruned only after the    *)
(* new artifact has been written.                                          *)
(***************************************************************************)
C18_NothingDeletedWhenUploadFails ==
    [][update_vn_trading_data_upload_fails => Gone = {}]_vars

(***************************************************************************)
(* C19: the date in the name of every published artifact is the latest     *)
(* date of the rows of the merged dataset, never the current day as such.  *)
(***************************************************************************)
C19_VersionIsMaxDataDate ==
    JustPublished =>
        LET k == NewKey(df_final)
        IN /\ \E r \in store[k].rows : r.date = k.date
           /\ \A r \in store[k].rows : r.date <= k.date

(***************************************************************************)
(* C20: every row of the master that exists when the run starts and every  *)
(* row of every chunk on disk at merge time has a row of its (ticker,      *)
(* date) pair in the dataset the run publishes.                            *)
(***************************************************************************)
\* the rows of the master the run found, as it is in the store before the publish
ExistingMasterRows == IF latest_file_path = NoFile THEN {} ELSE store[latest_file_path].rows

PublishStep == pc = "merge" /\ pc' \in {"remove_old", "finally"} /\ outcome' = "published"

C20_MasterAndChunkRowsPublished ==
    [][PublishStep =>
          \A r \in ExistingMasterRows \cup ChunkRows :
              \E q \in store'[NewKey(df_final)].rows : SamePair(r, q)]_vars

(***************************************************************************)
(* C21: until the terminal cleanup, every chunk file on disk stays on disk *)
(* with its content: no step of the batch loop or of the merge overwrites, *)
(* modifies or deletes a chunk file, in a first run or in a resumed run.   *)
(***************************************************************************)
C21_ChunksAppendOnly ==
    [][pc # "finally" =>
          \A n \in DOMAIN chunks : n \in DOMAIN chunks' /\ chunks'[n] = chunks[n]]_vars

\* a resumed run has written the chunk of its batch 0 next to the chunk of
\* batch 0 of the interrupted run
C21_Witness ==
    /\ pc = "batches"
    /\ \E n, m \in DOMAIN chunks :
         /\ n[1] = 0 /\ m[1] = 0
         /\ n[2] < stamp /\ m[2] = stamp
         /\ chunks[n].ok /\ chunks[m].ok
         /\ chunks[n].rows # chunks[m].rows

(***************************************************************************)
(* C23: within a run every ticker of the list that no readable chunk on    *)
(* disk covered at the start is submitted to the pool exactly once, in a   *)
(* batch of at most the batch size: none twice, and none left out when the *)
(* loop has ended, whether or not the number of tickers is a multiple of   *)
(* the batch size.                                                         *)
(***************************************************************************)
\* the tickers of the list that the chunks found at the start do not cover
Uncovered ==
    FilterTickers(TickerList, {r.ticker : r \in UNION {chunks[n].rows : n \in OldChunks}})

C23_EachTickerSubmittedOnce ==
    pc # "idle" =>
        /\ \A i, j \in 1..Len(submits) : submits[i] = submits[j] => i = j
        /\ Len(submits) <= Len(Uncovered)
        /\ submits = SubSeq(Uncovered, 1, Len(submits))
        /\ pc = "batches" => Len(Batch) <= batch_len
        /\ pc = "batches" => Len(submits) = (IF batch_idx * batch_len < Len(Uncovered)
                                             THEN batch_idx * batch_len ELSE Len(Uncovered))
        /\ pc \in {"merge", "remove_old"} => submits = Uncovered

\* the loop has ended after a batch of full size and the empty batch that
\* follows an exact multiple
C23_Witness ==
    /\ pc = "merge"
    /\ submits = Uncovered
    /\ Len(submits) = batch_len
    /\ batch_idx = 2
    /\ TotalBatches(tickers_to_process) = 2

\* the step that leaves the collection of a batch
BatchDone == pc = "collect" /\ pc' # "collect"

\* C22: batches are taken in the order of the list and checkpointed one at a
\* time: the pool receives the next batch only when nothing of the previous
\* one is in flight and the rows of the previous one, if any, are in its
\* chunk; a batch is left only when all its workers were collected; a batch
\* with rows adds exactly one chunk, which holds its rows; a batch without
\* rows adds none and the loop goes on to the next batch or to the merge.
C22_BatchesCheckpointedInOrder ==
    [][/\ submits' # submits /\ pc' # "idle" =>
            /\ futures = {}
            /\ submits' = submits \o BatchTickers(tickers_to_process, batch_idx)
            /\ new_rows # <<>> =>
                  /\ <<batch_idx - 1, stamp>> \in DOMAIN chunks
                  /\ chunks[<<batch_idx - 1, stamp>>].rows = df_batch(new_rows)
       /\ chunks' # chunks /\ pc' # "idle" => BatchDone /\ new_rows # <<>>
       /\ BatchDone =>
            /\ futures = {}
            /\ batch_idx' = batch_idx + 1
            /\ pc' \in {"batches", "merge"}
            /\ IF new_rows # <<>>
               THEN /\ <<batch_idx, stamp>> \notin DOMAIN chunks
                    /\ DOMAIN chunks' = DOMAIN chunks \cup {<<batch_idx, stamp>>}
                    /\ \A n \in DOMAIN chunks : chunks'[n] = chunks[n]
                    /\ chunks'[<<batch_idx, stamp>>] = [rows |-> df_batch(new_rows), ok |-> TRUE]
               ELSE chunks' = chunks]_vars

\* the first batch returned nothing and left no chunk, the run went on and
\* the second batch was checkpointed
C22_Witness ==
    /\ pc = "batches"
    /\ batch_idx = 2
    /\ <<0, stamp>> \notin DOMAIN chunks
    /\ <<1, stamp>> \in DOMAIN chunks
    /\ Len(submits) = 2

\* what the worker of ticker t returned: nothing when its fetch failed
Returned(t) == IF t \in ok_fetched THEN Served(t) ELSE {}

\* the rows returned by all the workers of the batch that is being collected
BatchReturned == UNION {Returned(t) : t \in SeqToSet(Batch)}

\* C25: in whatever order the workers of a batch complete, when the batch is
\* left the collected rows are the rows returned by its workers, each once,
\* and the chunk written for the batch holds exactly these rows (their date
\* column parsed); a batch whose workers returned nothing writes no chunk.
C25_ChunkIsUnionOfWorkerResults ==
    [][BatchDone =>
          /\ SeqToSet(new_rows) = BatchReturned
          /\ Len(new_rows) = Cardinality(BatchReturned)
          /\ IF BatchReturned = {}
             THEN chunks' = chunks
             ELSE /\ ChunkName \in DOMAIN chunks'
                  /\ chunks'[ChunkName].ok
                  /\ chunks'[ChunkName].rows =
                        {[r EXCEPT !.date = to_datetime(r.date)] : r \in BatchReturned}]_vars

\* a batch of two tickers whose workers completed in the reverse order of
\* their submission, both with rows, has been written
C25_Witness ==
    /\ pc \in {"batches", "merge"}
    /\ Len(new_rows) >= 2
    /\ new_rows[1].ticker = TickerList[2]
    /\ \E i \in 2..Len(new_rows) : new_rows[i].ticker = TickerList[1]
    /\ <<batch_idx - 1, stamp>> \in DOMAIN chunks
    /\ \E r \in chunks[<<batch_idx - 1, stamp>>].rows : r.ticker = TickerList[1]
    /\ \E r \in chunks[<<batch_idx - 1, stamp>>].rows : r.ticker = TickerList[2]

\* the rows of batch i of this run, its workers taken in the order of submission
RowsInSubmissionOrder(i) ==
    NewRows(BatchTickers(tickers_to_process, i), fetched \ ok_fetched)

\* the chunk files of a run whose workers complete in the order of submission:
\* the files found at the start and one file for each batch with rows
ChunksInSubmissionOrder ==
    [n \in {m \in DOMAIN chunks : m[2] # stamp}
           \cup {<<i, stamp>> : i \in {j \in 0..(TotalBatches(tickers_to_process) - 1) :
                                          RowsInSubmissionOrder(j) # <<>>}} |->
        IF n[2] = stamp
        THEN [rows |-> df_batch(RowsInSubmissionOrder(n[1])), ok |-> TRUE]
        ELSE chunks[n]]

C27_NoUnparsedDatePublished ==
    \A k \in DOMAIN store : \A r \in store[k].rows : r.date # NaT

\* C28: when a run ends and the process was not killed, whatever the outcome
\* of the run, no chunk file is left.
C28_NoChunkLeftWhenRunEnds ==
    [][RunEnds /\ faults' = faults => DOMAIN chunks' = {}]_vars

\* a run that had written a chunk ended on an exception, and no chunk is left
C28_Witness ==
    /\ pc = "idle"
    /\ covered # {}
    /\ DOMAIN chunks = {}

\* the tickers of the list that this run does not fetch
Skipped == Tickers \ SeqToSet(tickers_to_process)

\* C29: the tickers a run skips are exactly the tickers that have a row in a
\* readable chunk file found at its start; a ticker whose fetch returned
\* nothing or failed in the run before is not among them, and a file that
\* cannot be read adds none.
C29_SkippedAreTickersOfReadableChunks ==
    pc # "idle" =>
        \A t \in Tickers :
            t \in Skipped <=>
                \E n \in DOMAIN chunks :
                    /\ n[2] < stamp
                    /\ chunks[n].ok
                    /\ \E r \in chunks[n].rows : r.ticker = t

\* the run before wrote a chunk for a batch of two tickers in which the fetch
\* of one failed; this run skips the other and has fetched that one again
C29_Witness ==
    /\ pc # "idle"
    /\ Skipped = {TickerList[1]}
    /\ TickerList[2] \in DOMAIN failed_prev.wm
    /\ TickerList[2] \in fetched
    /\ \E n \in DOMAIN chunks : n[2] < stamp /\ chunks[n].ok

\* C24: a pipeline reads, writes and removes only files that its own data
\* type wrote, in every interleaving of the three pipelines, and every
\* staging file lies in the chunk directory of its writer or carries the
\* temporary name of its writer.
C24_StagingFilesOfOwnTypeOnly ==
    /\ foreign = {}
    /\ \A p \in DOMAIN disk :
          \/ p.dir = temp_chunk_dir(disk[p])
          \/ p = local_load_path(disk[p])
          \/ p = temp_path(disk[p])

\* one data type has been through its batches and its cleanup, and its chunk
\* directory is empty, while another data type, still fetching, has a chunk
\* in its directory: that chunk is in place
C24_Witness ==
    /\ tasks["insider"].pc \in {"done", "raised"}
    /\ tasks["insider"].batch = PoolBatches
    /\ tasks["proprietary"].pc = "fetch"
    /\ ListDir(temp_chunk_dir("proprietary")) # {}
    /\ ListDir(temp_chunk_dir("insider")) = {}

\* C30: run() never ends on the exception of a pipeline; it returns only
\* when the three pipelines have ended; and a pipeline that has ended without
\* an exception of its own has been through all its batches, whatever
\* happened in the two others.
C30_RunnerReturnsWhateverPipelinesRaise ==
    /\ runner \in {"pool", "returned"}
    /\ runner = "returned" => \A dt \in RangeTypes : tasks[dt].pc \in {"done", "raised"}
    /\ \A dt \in RangeTypes :
          /\ tasks[dt].pc = "raised" => tasks[dt].exc
          /\ tasks[dt].pc = "done" => (~ tasks[dt].exc /\ tasks[dt].batch = PoolBatches)

\* run() has returned; one pipeline raised before its first batch, the two
\* others ended without an exception
C30_Witness ==
    /\ runner = "returned"
    /\ tasks["proprietary"].pc = "raised"
    /\ tasks["proprietary"].batch = 0
    /\ tasks["insider"].pc = "done"
    /\ tasks["order_stats"].pc = "done"
====
